---- MODULE Spec2Model ----
(***************************************************************************)
(* Model of src/src/Animator.ts: the per-instance animation state machine  *)
(* (start / stop / pause / resume / update) and the static batch update    *)
(* over the shared runningSet.                                             *)
(*                                                                         *)
(* update() is modelled statement by statement: every callback invocation  *)
(* (setup, animation, transition, interrupt) is a step of its own, so that *)
(* the values a callback observes are states of the model.                 *)
(***************************************************************************)
EXTENDS Integers, Sequences, FiniteSets, TLC

VARIABLES
    obj,            \* instance -> its private fields (_state, _started, ...)
    runningSet,     \* Animator.runningSet, a JS Set: its members in insertion order
    batch,          \* the frame of a static Animator.update(delta) call in progress
    cursor,         \* Set.forEach position: members of runningSet already visited
    cur,            \* instance whose update() is executing, 0 when none
    pc,             \* position inside update()
    iterationLimit, \* update(): let iterationLimit
    current,        \* update(): const current
    st,             \* update(): const state (captured at the loop head)
    nextStateName,  \* update(): const nextStateName
    entry,          \* update(): <<state, delta>> when this call does the phase entry
    emitted,        \* onStateChange.invoke calls made by the last step
    raised,         \* error thrown by the last step, "none" otherwise
    occ,            \* per instance: callback counts of the current state occupancy
    listeners,      \* instance -> queries of the waitForState listeners on onStateChange
    resolved        \* promises resolved by the last step: <<instance, query, how>>

vars == <<obj, runningSet, batch, cursor, cur, pc, iterationLimit,
          current, st, nextStateName, entry,
          emitted, raised, occ, listeners, resolved>>

frame == <<cur, pc, iterationLimit, current, st, nextStateName, entry>>
locals == <<iterationLimit, current, st, nextStateName, entry>>

-----------------------------------------------------------------------------
(* Bounds of the model *)

\* ticks are issued while an instance's clock has not passed MaxTime
MaxTime == 20
\* a long frame (host loop stalled) is issued while the clock is at most MaxLongStart
MaxLongStart == 0
\* the delta of a long frame
LongDelta == 15360
\* clock limit and instances of the batch specification
MaxBatchTime == 5
\* visits of one forEach that are followed (a callback that pauses and resumes its
\* own instance is visited again without end)
MaxVisits == 3

Inst == {1, 2}
Solo == {1}
Deltas == {0, 5, 10}
BatchDeltas == {0, 5}

DeltasAt(t) == IF t <= MaxLongStart THEN Deltas \cup {LongDelta} ELSE Deltas

-----------------------------------------------------------------------------
(* State table (constructor, defaults filled in) *)

NoState == "null"
false == "false"

StateNames == {"A", "B", "C", "D", "E", "L", "Z", "X", "Y", "I"}
\* names start() is called with; "nope" is not in the table
StartNames == StateNames \cup {"nope"}

Const(name) == [kind |-> "string", results |-> {name}]
Rule(results) == [kind |-> "function", results |-> results]
NoInterrupt == {}

Default ==
    [duration |-> 0, delayBefore |-> 0, delayAfter |-> 0, loop |-> FALSE,
     overflow |-> TRUE, transition |-> Rule({false}), interrupt |-> NoInterrupt]

states ==
    [n \in StateNames |->
        CASE n = "A" -> [Default EXCEPT !.duration = 10, !.transition = Const("B")]
          [] n = "B" -> [Default EXCEPT !.transition = Const("stop")]
          [] n = "C" -> [Default EXCEPT !.delayBefore = 5, !.duration = 10, !.delayAfter = 5,
                                        !.transition = Rule({false, "D", "pause", "stop"})]
          [] n = "D" -> [Default EXCEPT !.duration = 10, !.overflow = FALSE,
                                        !.transition = Rule({false, "C", "D", "E"})]
          [] n = "E" -> [Default EXCEPT !.delayBefore = 5, !.delayAfter = 10,
                                        !.transition = Rule({false, "pause", "stop"})]
          [] n = "L" -> [Default EXCEPT !.delayBefore = 5, !.duration = 10, !.delayAfter = 5,
                                        !.loop = TRUE]
          [] n = "Z" -> [Default EXCEPT !.delayBefore = 5, !.delayAfter = 5, !.loop = TRUE]
          [] n = "X" -> [Default EXCEPT !.overflow = FALSE, !.transition = Const("Y")]
          [] n = "Y" -> [Default EXCEPT !.overflow = FALSE, !.transition = Const("X")]
          [] n = "I" -> [Default EXCEPT !.duration = 10, !.transition = Const("stop"),
                                        !.interrupt = {false, "B", "pause", "stop"}]]

-----------------------------------------------------------------------------
(* progress: a JS number, kept as a reduced fraction <<num, den>>;          *)
(* <<1, 0>> is Infinity                                                    *)

RECURSIVE GCD(_, _)
GCD(a, b) == IF b = 0 THEN a ELSE GCD(b, a % b)

Abs(x) == IF x < 0 THEN -x ELSE x

Frac(n, d) == LET g == GCD(Abs(n), d) IN IF g = 0 THEN <<0, 1>> ELSE <<n \div g, d \div g>>

Zero == <<0, 1>>
One == <<1, 1>>
Infinity == <<1, 0>>

\* p >= 1
GE1(p) == p[1] >= p[2]
\* p <= q for finite fractions
LEQ(p, q) == p[1] * q[2] <= q[1] * p[2]

ComputeProgressNoInfinity(s, cu, t0) ==
    IF s.duration # 0 THEN Frac(cu - (t0 + s.delayBefore), s.duration) ELSE Zero

ComputeProgressFalling(s, cu, t0) ==
    IF s.duration = 0 THEN Infinity
    ELSE IF cu - (t0 + s.delayBefore) >= s.duration
    THEN Frac(cu - (t0 + s.delayBefore), s.duration)
    ELSE Frac(s.duration - 5 - (cu - (t0 + s.delayBefore)), s.duration)

\* line 228: state.duration ? (current - (startTime + delayBefore)) / duration : Infinity
ComputeProgress(s, cu, t0) ==
    IF s.duration # 0 THEN Frac(cu - (t0 + s.delayBefore), s.duration) ELSE Infinity

-----------------------------------------------------------------------------
(* The heap the API methods work on, and the onStateChange / Set primitives *)

Heap ==
    [obj |-> obj, runningSet |-> runningSet, cursor |-> cursor,
     emitted |-> <<>>, raised |-> "none", occ |-> occ,
     listeners |-> listeners, resolved |-> {}]

Commit(H) ==
    /\ obj' = H.obj
    /\ runningSet' = H.runningSet
    /\ cursor' = H.cursor
    /\ emitted' = H.emitted
    /\ raised' = H.raised
    /\ occ' = H.occ
    /\ listeners' = H.listeners
    /\ resolved' = H.resolved

Has(s, x) == \E k \in 1..Len(s) : s[k] = x
IndexOf(s, x) == CHOOSE k \in 1..Len(s) : s[k] = x
RemoveAt(s, k) == [j \in 1..(Len(s) - 1) |-> IF j < k THEN s[j] ELSE s[j + 1]]

\* Set.prototype.delete; a forEach in progress does not revisit what it has visited
SetDelete(H, i) ==
    IF ~Has(H.runningSet, i) THEN H
    ELSE LET k == IndexOf(H.runningSet, i) IN
         [H EXCEPT !.runningSet = RemoveAt(@, k),
                   !.cursor = IF k <= @ THEN @ - 1 ELSE @]

\* Set.prototype.add: a new member goes last, where a forEach in progress still visits it
SetAdd(H, i) ==
    IF Has(H.runningSet, i) THEN H ELSE [H EXCEPT !.runningSet = Append(@, i)]

Inc(n) == IF n < 2 THEN n + 1 ELSE 2

\* onStateChange.invoke(name): a waitForState listener whose query matches
\* resolves its promise and removes itself (lines 367-373); occ counts the
\* notifications that carry a state name
Notify(H, i, name) ==
    [H EXCEPT !.emitted = Append(@, <<i, name>>),
              !.resolved = @ \cup {<<i, q, "notified">> : q \in H.listeners[i] \cap {name}},
              !.listeners[i] = @ \ {name},
              !.occ[i].notes = IF name \in StateNames THEN Inc(@) ELSE @]

FreshOcc == [anims |-> 0, ones |-> 0, last |-> <<>>, setups |-> 0, notes |-> 0]

-----------------------------------------------------------------------------
(* Lifecycle methods *)

pauseKeepsMember(H, i) ==
    IF H.obj[i].started /\ ~H.obj[i].paused
    THEN Notify([H EXCEPT !.obj[i].paused = TRUE], i, "pause")
    ELSE H

pause(H, i) ==
    IF H.obj[i].started /\ ~H.obj[i].paused
    THEN Notify([SetDelete(H, i) EXCEPT !.obj[i].paused = TRUE], i, "pause")
    ELSE H

resume(H, i) ==
    IF H.obj[i].paused
    THEN [SetAdd(H, i) EXCEPT !.obj[i].paused = FALSE]
    ELSE H

startKeepsRunning(H, i, initialState) ==
    IF ~H.obj[i].started \/ H.obj[i].paused
    THEN IF initialState \in StateNames
         THEN [SetAdd(H, i) EXCEPT !.obj[i].paused = FALSE,
                                   !.obj[i].state = initialState,
                                   !.obj[i].started = TRUE,
                                   !.occ[i] = FreshOcc]
         ELSE [H EXCEPT !.obj[i].paused = FALSE,
                        !.obj[i].state = NoState,
                        !.raised = "state not found"]
    ELSE H

start(H, i, initialState) ==
    IF ~H.obj[i].started \/ H.obj[i].paused
    THEN IF initialState \in StateNames
         THEN [SetAdd(H, i) EXCEPT !.obj[i].paused = FALSE,
                                   !.obj[i].state = initialState,
                                   !.obj[i].started = TRUE,
                                   !.obj[i].running = FALSE,
                                   !.occ[i] = FreshOcc]
         ELSE [H EXCEPT !.obj[i].paused = FALSE,
                        !.obj[i].state = NoState,
                        !.raised = "state not found"]
    ELSE H

StopNotifies(H, i, noStateChangeEvent) ==
    H.obj[i].state # NoState /\ ~noStateChangeEvent

stop(H, i, noStateChangeEvent) ==
    IF H.obj[i].started
    THEN LET H1 == [SetDelete(H, i) EXCEPT !.obj[i].paused = FALSE,
                                          !.obj[i].started = FALSE,
                                          !.obj[i].running = FALSE,
                                          !.obj[i].state = NoState]
         IN IF StopNotifies(H, i, noStateChangeEvent) THEN Notify(H1, i, "stop") ELSE H1
    ELSE H

\* lines 359-375, query a string
waitForState(H, i, query) ==
    LET o == H.obj[i] IN
    IF o.paused /\ o.state = NoState
    THEN [H EXCEPT !.raised = "TypeError"]
    ELSE IF o.paused /\ o.state = query
    THEN [H EXCEPT !.resolved = @ \cup {<<i, query, "at once">>}]
    ELSE IF (IF o.state # NoState THEN o.state ELSE "stop") = query
    THEN [H EXCEPT !.resolved = @ \cup {<<i, query, "at once">>}]
    ELSE [H EXCEPT !.listeners[i] = @ \cup {query}]

\* get currentState: throws when there is no state
currentStateThrows(i) == obj[i].state = NoState

-----------------------------------------------------------------------------
(* Initial state: constructor *)

timeScale == 1
IterationLimit == 1024

NewAnimator ==
    [state |-> NoState, animating |-> FALSE, started |-> FALSE, running |-> FALSE,
     paused |-> FALSE, progress |-> Zero, time |-> 0, startTime |-> 0]

NoBatch == [active |-> FALSE, delta |-> 0, members |-> {}, updated |-> <<>>]
Members(s) == {s[k] : k \in 1..Len(s)}

Init ==
    /\ obj = [i \in Inst |-> NewAnimator]
    /\ runningSet = <<>>
    /\ batch = NoBatch
    /\ cursor = 0
    /\ cur = 0
    /\ pc = "idle"
    /\ iterationLimit = 0
    /\ current = 0
    /\ st = NoState
    /\ nextStateName = false
    /\ entry = <<>>
    /\ emitted = <<>>
    /\ raised = "none"
    /\ occ = [i \in Inst |-> FreshOcc]
    /\ listeners = [i \in Inst |-> {}]
    /\ resolved = {}

\* no call is executing
Idle == cur = 0 /\ ~batch.active

-----------------------------------------------------------------------------
(* Control flow of update(): continue at a position, return, throw *)

Goto(H, i, p) ==
    /\ Commit(H)
    /\ cur' = i
    /\ pc' = p
    /\ UNCHANGED batch

ClearFrame ==
    /\ cur' = 0
    /\ pc' = "idle"
    /\ iterationLimit' = 0
    /\ current' = 0
    /\ st' = NoState
    /\ nextStateName' = false
    /\ entry' = <<>>

\* update() returns; a forEach in progress goes on while members are left to visit
Return(H, b) ==
    /\ ClearFrame
    /\ IF b.active /\ H.cursor < Len(H.runningSet)
       THEN Commit(H) /\ batch' = b
       ELSE Commit([H EXCEPT !.cursor = 0]) /\ batch' = NoBatch

\* update() throws; the exception ends a forEach in progress
Throw(H, msg) ==
    /\ ClearFrame
    /\ Commit([H EXCEPT !.cursor = 0, !.raised = msg])
    /\ batch' = NoBatch

\* what a callback does besides returning: nothing, or one call of the API
NoEffect == <<>>
Effects ==
    {NoEffect}
    \cup {<<op, j>> : op \in {"stop", "pause", "resume"}, j \in Inst}
    \cup {<<"start", j, "B">> : j \in Inst}

Effect(H, e) ==
    IF e = NoEffect THEN H
    ELSE CASE e[1] = "stop" -> stop(H, e[2], FALSE)
           [] e[1] = "pause" -> pause(H, e[2])
           [] e[1] = "resume" -> resume(H, e[2])
           [] e[1] = "start" -> start(H, e[2], e[3])

\* state.setup?.(this, this.parameters)
CallSetup(H, i, e) ==
    Effect([H EXCEPT !.occ[i].setups = Inc(@)], e)

\* state.animation(this, this.parameters): the callback observes this.progress
CallAnimation(H, i, e) ==
    Effect([H EXCEPT !.occ[i].anims = Inc(@),
                     !.occ[i].ones = IF H.obj[i].progress = One THEN Inc(@) ELSE @,
                     !.occ[i].last = H.obj[i].progress], e)

-----------------------------------------------------------------------------
(* update(delta), lines 194-217: clock, phase entry *)

EntryStartTimeBeforeTick(t, cu) == t

\* line 204
EntryStartTime(t, cu) == cu

EnterUpdate(H, i, d, b) ==
    LET cu == H.obj[i].time + d * timeScale
        H1 == [H EXCEPT !.obj[i].time = cu]
        H2 == [H1 EXCEPT !.obj[i].running = TRUE,
                         !.obj[i].startTime = EntryStartTime(H.obj[i].time, cu),
                         !.obj[i].animating = TRUE,
                         !.obj[i].started = TRUE,
                         !.obj[i].progress = Zero]
    IN  IF ~H1.obj[i].started THEN Throw(H1, "not running")
        ELSE IF ~H1.obj[i].running
        THEN IF H2.obj[i].state = NoState THEN Throw(H2, "state is missing")
             ELSE /\ Commit([H2 EXCEPT !.occ[i] = FreshOcc])
                  /\ batch' = b
                  /\ cur' = i
                  /\ pc' = "entry_setup"
                  /\ current' = cu
                  /\ iterationLimit' = 0
                  /\ entry' = <<H2.obj[i].state, d>>
                  /\ UNCHANGED <<st, nextStateName>>
        ELSE /\ Commit(H1)
             /\ batch' = b
             /\ cur' = i
             /\ pc' = "loop"
             /\ current' = cu
             /\ iterationLimit' = IterationLimit
             /\ UNCHANGED <<st, nextStateName, entry>>

\* instance.update(delta), called directly
Update(i, d) ==
    /\ Idle
    /\ obj[i].time <= MaxTime
    /\ d \in DeltasAt(obj[i].time)
    /\ EnterUpdate(Heap, i, d, NoBatch)

\* Animator.update(delta): forEach over runningSet, first member entered at once
BatchUpdate(d, limit) ==
    /\ Idle
    /\ \A k \in 1..Len(runningSet) : obj[runningSet[k]].time <= limit
    /\ IF Len(runningSet) > 0
       THEN EnterUpdate([Heap EXCEPT !.cursor = 1], runningSet[1], d,
                        [active |-> TRUE, delta |-> d, members |-> Members(runningSet),
                         updated |-> <<runningSet[1]>>])
       ELSE /\ Commit(Heap)
            /\ UNCHANGED <<batch, frame>>

\* forEach visits the next member
ForEachNext ==
    /\ batch.active
    /\ cur = 0
    /\ cursor < Len(runningSet)
    /\ Len(batch.updated) < MaxVisits
    /\ obj[runningSet[cursor + 1]].time <= MaxBatchTime
    /\ EnterUpdate([Heap EXCEPT !.cursor = cursor + 1], runningSet[cursor + 1],
                   batch.delta, [batch EXCEPT !.updated = Append(@, runningSet[cursor + 1])])

\* lines 211-217: setup of the initial state, then its notification
EntrySetup(e) ==
    /\ pc = "entry_setup"
    /\ Goto(CallSetup(Heap, cur, e), cur, "entry_check")
    /\ UNCHANGED locals

EntryCheck ==
    /\ pc = "entry_check"
    /\ IF ~obj[cur].started \/ obj[cur].paused
       THEN Return(Heap, batch)
       ELSE /\ Goto(Notify(Heap, cur, obj[cur].state), cur, "loop")
            /\ iterationLimit' = IterationLimit
            /\ UNCHANGED <<current, st, nextStateName, entry>>

-----------------------------------------------------------------------------
(* update(), lines 218-308: the resolution loop *)

LimitNever(lim) == FALSE

\* line 221
LimitReached(lim) == lim = 0

InDelayBeforeNever(s, cu, t0) == FALSE

\* line 225
InDelayBefore(s, cu, t0) == s.delayBefore > cu - t0

ExhaustedWhenIdle(o, progress) == ~o.animating

\* line 229
Exhausted(o, progress) == ~o.animating \/ GE1(progress)

NeedsFinalFrameAlways(o) == TRUE

\* line 230
NeedsFinalFrame(o) == o.progress # One

\* line 234
InDelayAfter(s, cu, t0) == cu - (t0 + s.delayBefore + s.duration) < s.delayAfter

NextStartTimeNoCarry(o, s, cu) == cu

NextStartTimeAlwaysCarry(o, s, cu) ==
    o.startTime + s.duration + s.delayBefore + s.delayAfter

\* lines 251-255: where the next state's clock is anchored
NextStartTime(o, s, cu) ==
    IF o.animating /\ s.overflow
    THEN o.startTime + s.duration + s.delayBefore + s.delayAfter
    ELSE cu

InterruptStartTimeCarry(o, s, cu) ==
    IF o.animating /\ s.overflow
    THEN o.startTime + s.duration + s.delayBefore + s.delayAfter
    ELSE cu

\* line 293: where the target of an interrupt is anchored
InterruptStartTime(o, s, cu) == cu

\* line 271
LoopStartTime(o, s) == o.startTime + s.duration + s.delayAfter

\* line 268
ZeroLoopStartTime(s, cu) == cu - s.delayBefore

\* lines 219-229, 277
LoopHead ==
    /\ pc = "loop"
    /\ LET i == cur
           o == obj[i]
           lim == iterationLimit - 1
       IN  IF LimitReached(lim) THEN Throw(Heap, "iteration limit")
           ELSE IF o.state = NoState THEN Throw(Heap, "TypeError")
           ELSE LET s == states[o.state]
                    progress == ComputeProgress(s, current, o.startTime)
                IN  IF InDelayBefore(s, current, o.startTime) THEN Return(Heap, batch)
                    ELSE /\ iterationLimit' = lim
                         /\ st' = o.state
                         /\ UNCHANGED <<current, nextStateName, entry>>
                         /\ IF Exhausted(o, progress)
                            THEN Goto(Heap, i, "final")
                            ELSE Goto([Heap EXCEPT !.obj[i].progress = progress], i, "anim")

\* lines 230-233: the final frame
FinalFrame(e) ==
    /\ pc = "final"
    /\ NeedsFinalFrame(obj[cur])
    /\ Goto(CallAnimation([Heap EXCEPT !.obj[cur].progress = One], cur, e), cur, "hold")
    /\ UNCHANGED locals

FinalSkip ==
    /\ pc = "final"
    /\ ~NeedsFinalFrame(obj[cur])
    /\ Goto(Heap, cur, "hold")
    /\ UNCHANGED locals

\* lines 234-236
Hold ==
    /\ pc = "hold"
    /\ IF InDelayAfter(states[st], current, obj[cur].startTime)
       THEN Return(Heap, batch)
       ELSE /\ Goto(Heap, cur, "transition")
            /\ UNCHANGED locals

\* line 237, typeof state.transition == "string"
TransitionString ==
    /\ pc = "transition"
    /\ states[st].transition.kind = "string"
    /\ nextStateName' \in states[st].transition.results
    /\ Goto(Heap, cur, "outcome")
    /\ UNCHANGED <<iterationLimit, current, st, entry>>

\* line 237, state.transition(this, this.parameters) returning r
TransitionRule(r, e) ==
    /\ pc = "transition"
    /\ states[st].transition.kind = "function"
    /\ r \in states[st].transition.results
    /\ nextStateName' = r
    /\ Goto(Effect(Heap, e), cur, "outcome")
    /\ UNCHANGED <<iterationLimit, current, st, entry>>

\* lines 238-275
Outcome ==
    /\ pc = "outcome"
    /\ LET i == cur
           o == obj[i]
           s == states[st]
       IN  CASE nextStateName = "stop" ->
                  /\ Return(stop(Heap, i, FALSE), batch)
             [] nextStateName = "pause" ->
                  /\ Return(pause([Heap EXCEPT !.obj[i].animating = FALSE], i), batch)
             [] nextStateName \notin {"stop", "pause", false} ->
                  /\ IF nextStateName \notin StateNames
                     THEN Throw(Heap, "could not find state")
                     ELSE /\ Goto([Heap EXCEPT
                                     !.obj[i].progress = Zero,
                                     !.obj[i].startTime = NextStartTime(o, s, current),
                                     !.obj[i].state = nextStateName,
                                     !.occ[i] = FreshOcc], i, "trans_setup")
                          /\ UNCHANGED locals
             [] nextStateName = false /\ s.loop ->
                  /\ IF s.duration <= 0
                     THEN Return([Heap EXCEPT
                                    !.obj[i].progress = Zero,
                                    !.obj[i].startTime = ZeroLoopStartTime(s, current),
                                    !.occ[i].ones = 0,
                                    !.occ[i].last = <<>>], batch)
                     ELSE /\ Goto([Heap EXCEPT
                                     !.obj[i].progress = Zero,
                                     !.obj[i].startTime = LoopStartTime(o, s),
                                     !.occ[i].ones = 0,
                                     !.occ[i].last = <<>>], i, "loop")
                          /\ UNCHANGED locals
             [] nextStateName = false /\ ~s.loop ->
                  /\ Return([Heap EXCEPT !.obj[i].animating = FALSE], batch)

\* line 257
TransSetup(e) ==
    /\ pc = "trans_setup"
    /\ Goto(CallSetup(Heap, cur, e), cur, "trans_check")
    /\ UNCHANGED locals

\* lines 259-264
TransCheck ==
    /\ pc = "trans_check"
    /\ IF ~obj[cur].started \/ obj[cur].paused
       THEN Return(Heap, batch)
       ELSE /\ Goto(Notify([Heap EXCEPT !.obj[cur].animating = TRUE], cur, nextStateName),
                    cur, "loop")
            /\ UNCHANGED locals

\* lines 278-279: animation inside the active phase, then state.interrupt ?
Animation(e) ==
    /\ pc = "anim"
    /\ IF states[st].interrupt # NoInterrupt
       THEN /\ Goto(CallAnimation(Heap, cur, e), cur, "interrupt")
            /\ UNCHANGED locals
       ELSE Return(CallAnimation(Heap, cur, e), batch)

\* line 280
Interrupt(r, e) ==
    /\ pc = "interrupt"
    /\ r \in states[st].interrupt
    /\ nextStateName' = r
    /\ Goto(Effect(Heap, e), cur, "int_outcome")
    /\ UNCHANGED <<iterationLimit, current, st, entry>>

\* lines 281-294, 303-306
InterruptOutcome ==
    /\ pc = "int_outcome"
    /\ LET i == cur IN
       CASE nextStateName = "stop" ->
              /\ Return(stop(Heap, i, FALSE), batch)
         [] nextStateName = "pause" ->
              /\ Return(pause(Heap, i), batch)
         [] nextStateName \notin {"stop", "pause", false} ->
              /\ IF nextStateName \notin StateNames
                 THEN Throw(Heap, "could not find state")
                 ELSE /\ Goto([Heap EXCEPT
                                 !.obj[i].progress = Zero,
                                 !.obj[i].startTime =
                                     InterruptStartTime(obj[i], states[st], current),
                                 !.obj[i].state = nextStateName,
                                 !.occ[i] = FreshOcc], i, "int_setup")
                      /\ UNCHANGED locals
         [] nextStateName = false ->
              /\ Return(Heap, batch)

\* line 295
InterruptSetup(e) ==
    /\ pc = "int_setup"
    /\ Goto(CallSetup(Heap, cur, e), cur, "int_check")
    /\ UNCHANGED locals

\* lines 296-302
InterruptCheck ==
    /\ pc = "int_check"
    /\ LET H == Notify(Heap, cur, nextStateName) IN
       IF ~obj[cur].started
       THEN Return(H, batch)
       ELSE /\ Goto([H EXCEPT !.obj[cur].animating = TRUE], cur, "loop")
            /\ UNCHANGED locals

-----------------------------------------------------------------------------
(* Calls of the lifecycle methods by the host, between ticks *)

Call(H) ==
    /\ Idle
    /\ Commit(H)
    /\ UNCHANGED <<batch, frame>>

Pause(i) == Call(pause(Heap, i))
Resume(i) == Call(resume(Heap, i))
Start(i, name) == Call(start(Heap, i, name))
Stop(i, noStateChangeEvent) == Call(stop(Heap, i, noStateChangeEvent))
WaitForState(i, query) == Call(waitForState(Heap, i, query))

-----------------------------------------------------------------------------
(* Specifications *)

\* the steps inside update() with callbacks that call nothing
Resolve(E) ==
    \/ \E e \in E : EntrySetup(e)
    \/ EntryCheck
    \/ LoopHead
    \/ \E e \in E : FinalFrame(e)
    \/ FinalSkip
    \/ Hold
    \/ TransitionString
    \/ \E e \in E, r \in {false, "stop", "pause"} \cup StateNames : TransitionRule(r, e)
    \/ Outcome
    \/ \E e \in E : TransSetup(e)
    \/ TransCheck
    \/ \E e \in E : Animation(e)
    \/ \E e \in E, r \in {false, "stop", "pause"} \cup StateNames : Interrupt(r, e)
    \/ InterruptOutcome
    \/ \E e \in E : InterruptSetup(e)
    \/ InterruptCheck

\* one instance, every state of the table, callbacks that only compute
Next ==
    \/ \E i \in Solo, n \in StartNames : Start(i, n)
    \/ \E i \in Solo, b \in BOOLEAN : Stop(i, b)
    \/ \E i \in Solo : Pause(i)
    \/ \E i \in Solo : Resume(i)
    \/ \E i \in Solo, d \in Deltas \cup {LongDelta} : Update(i, d)
    \/ \E d \in Deltas : BatchUpdate(d, MaxTime)
    \/ Resolve({NoEffect})

Spec == Init /\ [][Next]_vars

\* two instances on the shared registry, advanced by Animator.update only;
\* callbacks may call stop, pause, resume or start on either instance; the second
\* instance runs the one-tick state B
BatchStartNames(i) == IF i = 1 THEN {"D", "E", "I"} ELSE {"B"}

NextBatch ==
    \/ \E i \in Inst : \E n \in BatchStartNames(i) : Start(i, n)
    \/ \E i \in Inst : Stop(i, FALSE)
    \/ \E i \in Inst : Pause(i)
    \/ \E i \in Inst : Resume(i)
    \/ \E d \in BatchDeltas : BatchUpdate(d, MaxBatchTime)
    \/ ForEachNext
    \/ Resolve(Effects)

SpecBatch == Init /\ [][NextBatch]_vars

\* one instance on the registry, ticked by Animator.update, with waitForState
\* called between ticks
MaxWaitTime == 10
WaitStartNames == {"D", "E", "I", "nope"}
Queries == {"stop", "E"}

NextWait ==
    \/ \E i \in Solo, n \in WaitStartNames : Start(i, n)
    \/ \E i \in Solo, b \in BOOLEAN : Stop(i, b)
    \/ \E i \in Solo : Pause(i)
    \/ \E i \in Solo : Resume(i)
    \/ \E i \in Solo, q \in Queries : WaitForState(i, q)
    \/ \E d \in BatchDeltas : BatchUpdate(d, MaxWaitTime)
    \/ Resolve({NoEffect})

SpecWait == Init /\ [][NextWait]_vars

\* one instance updated directly, whose callbacks may call stop, pause or resume
\* on it
EntryStartNames == {"D", "I", "L", "Z"}
SoloEffects == {NoEffect} \cup {<<op, j>> : op \in {"stop", "pause", "resume"}, j \in Solo}

NextEntry ==
    \/ \E i \in Solo, n \in EntryStartNames : Start(i, n)
    \/ \E i \in Solo : Stop(i, FALSE)
    \/ \E i \in Solo : Pause(i)
    \/ \E i \in Solo : Resume(i)
    \/ \E i \in Solo, d \in Deltas : Update(i, d)
    \/ Resolve(SoloEffects)

SpecEntry == Init /\ [][NextEntry]_vars

-----------------------------------------------------------------------------
(* Claims *)

\* the transition outcome about to be applied leaves the occupancy: a state name,
\* "stop", or a loop restart
Leaving == nextStateName \notin {false, "pause"} \/ states[st].loop

\* C1: whenever a state occupancy (begun at state entry or at a loop restart) is
\* left through its transition outcome, the animation callback has been invoked
\* with progress = 1 exactly once in that occupancy, and that was its last
\* invocation.
C1_FinalFrameOnNaturalExit ==
    (pc = "outcome" /\ Leaving) =>
        (occ[cur].ones = 1 /\ occ[cur].last = One /\ obj[cur].progress = One)

\* C1 witness: state C, ticked through its active phase (animation calls before
\* the final one), is about to transition to D.
C1_Witness ==
    /\ pc = "outcome"
    /\ st = "C"
    /\ nextStateName = "D"
    /\ occ[cur].anims = 2
    /\ occ[cur].ones = 1

\* C2: when a state is left because its interrupt returned a state name or
\* "stop", the last animation invocation of that state observed progress = 1,
\* exactly once.
C2_FinalFrameOnInterruptExit ==
    (pc = "int_outcome" /\ nextStateName \notin {false, "pause"}) =>
        (occ[cur].ones = 1 /\ occ[cur].last = One)

ZeroDuration(i) == obj[i].state \in StateNames /\ states[obj[i].state].duration = 0

\* the final frame of the current tick has been passed
PastFinal(i) == cur = i /\ pc \in {"hold", "transition", "outcome"}

\* C3 as stated: a state with duration = 0, whatever its loop flag, has its
\* animation invoked exactly once between entry and exit, with progress = 1.
C3_ZeroDurationOncePerEntry ==
    \A i \in Inst :
        ZeroDuration(i) =>
            /\ occ[i].anims <= 1
            /\ PastFinal(i) => (occ[i].anims = 1 /\ occ[i].last = One)

\* C3 amended: a state with duration = 0 and loop = false has its animation
\* invoked exactly once between entry and exit, with progress = 1; with
\* loop = true the animation is invoked once, with progress = 1, per loop
\* restart.
C3_ZeroDurationOncePerOccupancy ==
    \A i \in Inst :
        ZeroDuration(i) =>
            /\ ~states[obj[i].state].loop => occ[i].anims <= 1
            /\ occ[i].ones <= 1
            /\ occ[i].last \in {<<>>, One}
            /\ PastFinal(i) =>
                /\ occ[i].ones = 1 /\ occ[i].last = One
                /\ ~states[obj[i].state].loop => occ[i].anims = 1

\* C3 witness: the zero-duration state E, held for several ticks by its delays
\* and a transition returning false, is about to be left after one animation call.
C3_Witness ==
    /\ pc = "outcome"
    /\ st = "E"
    /\ nextStateName = "stop"
    /\ ~obj[cur].animating
    /\ occ[cur].anims = 1

\* update() of instance i returns (or throws) in this step
Returning == cur # 0 /\ cur' = 0

\* C4 as stated: start("A") followed by one update(10) exhausts A, enters B and
\* reaches "stop" inside that call, so started = false when the call returns.
C4_FirstDeltaCounts ==
    [][(Returning /\ entry = <<"A", 10>> /\ ~obj[cur].paused) => ~obj'[cur].started]_vars

C4_EntryAnchorsAtClock ==
    (Returning /\ entry # <<>> /\ entry[1] = "A" /\ raised' = "none") =>
        /\ obj'[cur].started
        /\ obj'[cur].state = "A"
        /\ obj'[cur].progress = Zero
        /\ obj'[cur].startTime = obj'[cur].time

\* an update of an instance that is not paused returns while A is being resolved
\* only inside A's active phase, less than 10 units after the anchor; once B is
\* being resolved the call returns by applying B's "stop"
C4_ExhaustedTenAfterEntry ==
    (Returning /\ ~obj[cur].paused /\ raised' = "none") =>
        /\ st = "A" => (pc = "anim" /\ current - obj[cur].startTime < 10)
        /\ st = "B" => (pc = "outcome" /\ ~obj'[cur].started)

\* C4 amended: the delta of the first update after start() does not count toward
\* the initial state's phases: that update anchors startTime at the clock it has
\* just advanced. start("A") followed by one update returns with A current,
\* progress = 0 and started = true; the update that brings the clock 10 units
\* past the first one exhausts A, enters B and reaches "stop" inside that call
\* (started = false when it returns).
C4_FirstDeltaAnchors ==
    [][C4_EntryAnchorsAtClock /\ C4_ExhaustedTenAfterEntry]_vars

\* C4 witness: A was entered by an earlier update at clock 10; the update to
\* clock 20 has exhausted A, entered B and is about to apply B's "stop".
C4_Witness ==
    /\ pc = "outcome"
    /\ st = "B"
    /\ nextStateName = "stop"
    /\ entry = <<>>
    /\ current = 20
    /\ obj[cur].startTime = 20

\* a transition to a named state is applied in this step
NamedTransition == pc = "outcome" /\ pc' = "trans_setup"

PhaseLength(s) == s.delayBefore + s.duration + s.delayAfter

\* C5: when a still-animating state with overflow = true is exhausted by a tick
\* landing x units past the end of delayBefore + duration + delayAfter, the next
\* state's startTime is the old startTime plus that length, so its elapsed time
\* is x; with overflow = false the next state's startTime is the current clock.
C5_OverflowCarry ==
    [][NamedTransition =>
        LET o == obj[cur]
            s == states[st]
            x == current - (o.startTime + PhaseLength(s))
        IN  /\ (o.animating /\ s.overflow) =>
                /\ obj'[cur].startTime = o.startTime + PhaseLength(s)
                /\ current - obj'[cur].startTime = x
                /\ x >= 0
            /\ ~s.overflow => obj'[cur].startTime = current]_vars

\* C5 witness: C (overflow = true) was exhausted by a tick landing 5 units past
\* its end; D is entered with 5 units already elapsed.
C5_Witness ==
    /\ pc = "trans_setup"
    /\ st = "C"
    /\ obj[cur].state = "D"
    /\ obj[cur].animating
    /\ current - obj[cur].startTime = 5

\* C6: a loop state with duration > 0 and a transition that always returns false
\* stays current under any non-negative ticks, its setup is invoked exactly once,
\* each restart begins where the previous delayAfter hold ended, and no update
\* raises an error.
C6_LoopForever ==
    /\ [](\A i \in Inst :
            (obj[i].state = "L" /\ ~obj[i].paused) =>
                /\ raised = "none"
                /\ occ[i].setups <= 1)
    /\ [][(pc = "outcome" /\ st = "L") =>
            /\ obj'[cur].state = "L"
            /\ obj'[cur].startTime + states["L"].delayBefore
                 = obj[cur].startTime + PhaseLength(states["L"])]_vars

\* C7: pause() immediately followed by resume(), between ticks on a started,
\* unpaused instance, leaves every field of the instance (state, startTime, clock,
\* progress, running, animating, flags) as it was and the instance in the registry,
\* so the next update continues the interrupted phase; and while an instance is
\* paused, no step of a batch update that is not part of its own in-flight update
\* changes any of its fields.
C7_PauseResumeRestores ==
    /\ [](\A i \in Inst :
            (Idle /\ obj[i].started /\ ~obj[i].paused) =>
                LET P == pause(Heap, i)
                    H == resume(P, i)
                IN  /\ P.obj[i].paused
                    /\ ~Has(P.runningSet, i)
                    /\ H.obj = obj
                    /\ Has(H.runningSet, i)
                    /\ Members(H.runningSet) = Members(runningSet))
    /\ [][\A i \in Inst :
            (obj[i].paused /\ obj'[i].paused /\ cur # i /\ (batch.active \/ batch'.active))
                => obj'[i] = obj[i]]_vars

\* instance 1 was paused half way through D at clock 5; a later batch is updating
\* instance 2, whose clock has reached 10
C7_Witness ==
    /\ batch.active
    /\ cur = 2
    /\ obj[2].time = 10
    /\ obj[1].paused
    /\ obj[1].state = "D"
    /\ obj[1].progress = <<1, 2>>
    /\ obj[1].time = 5

Stopped(H, i) ==
    /\ ~H.obj[i].started
    /\ ~H.obj[i].running
    /\ ~H.obj[i].paused
    /\ H.obj[i].state = NoState
    /\ ~Has(H.runningSet, i)

\* C8: stop() on a started instance, and a transition or interrupt outcome
\* "stop", leave started = running = paused = false, no current state, the
\* instance out of the registry, and exactly one "stop" notification emitted
\* unless suppressed; stop() on an instance that is not started changes nothing
\* and emits nothing.
C8_StopPostcondition ==
    /\ [](\A i \in Inst :
            IF obj[i].started
            THEN /\ Stopped(stop(Heap, i, FALSE), i)
                 /\ stop(Heap, i, FALSE).emitted = <<<<i, "stop">>>>
                 /\ Stopped(stop(Heap, i, TRUE), i)
                 /\ stop(Heap, i, TRUE).emitted = <<>>
            ELSE \A b \in BOOLEAN : stop(Heap, i, b) = Heap)
    /\ [][(pc \in {"outcome", "int_outcome"} /\ nextStateName = "stop") =>
            /\ Stopped([obj |-> obj', runningSet |-> runningSet'], cur)
            /\ emitted' = <<<<cur, "stop">>>>]_vars

\* C10: every update terminates: the resolution loop starts each tick with the
\* iteration cap, every pass of the loop lowers the remaining count, the pass
\* that finds it exhausted raises the iteration-limit error and ends the update,
\* and an update of the zero-duration cycle X -> Y -> X leaves the loop only
\* through that error.
C10_UpdateTerminates ==
    /\ []((cur # 0 /\ pc \notin {"entry_setup", "entry_check"})
            => iterationLimit \in 1..IterationLimit)
    /\ [][(pc = "loop" /\ cur' # 0) => iterationLimit' < iterationLimit]_vars
    /\ [][(pc # "loop" /\ cur' # 0 /\ cur # 0) => iterationLimit' <= iterationLimit
                                                  \/ pc = "entry_check"]_vars
    /\ [][(pc = "loop" /\ iterationLimit = 1) =>
            /\ raised' = "iteration limit"
            /\ cur' = 0]_vars
    /\ [][(pc = "loop" /\ Returning /\ obj[cur].state \in {"X", "Y"}) =>
            raised' = "iteration limit"]_vars

\* the cycle X -> Y -> X has used up the cap and the update has ended with the error
C10_Witness ==
    /\ raised = "iteration limit"
    /\ cur = 0
    /\ \E i \in Inst : obj[i].state \in {"X", "Y"} /\ obj[i].running

\* C9: one Animator.update(delta) call updates exactly the instances that were
\* members of the registry when the call began: no instance outside the membership
\* at the start of the call is updated during it, and when the call ends without
\* an error every instance of that membership has been updated.
C9_BatchIteratesSnapshot ==
    /\ [](batch.active => Members(batch.updated) \subseteq batch.members)
    /\ [][(batch.active /\ ~batch'.active /\ raised' = "none")
            => Members(batch.updated) = batch.members]_vars

\* the clock of the update in progress is inside the delayBefore window of the
\* instance's current state
InWindow(i) ==
    /\ obj[i].state # NoState
    /\ current - obj[i].startTime < states[obj[i].state].delayBefore

\* C11: while the clock is inside the current state's delayBefore window, an
\* update does no work: the resolution loop returns at once, leaving every field
\* of the instance (progress included) as it is, invoking no callback and emitting
\* no notification; and no animation, transition or interrupt callback of a state
\* is ever reached while the clock is inside that state's window.
C11_DelayBeforeNoWork ==
    /\ [][(pc = "loop" /\ InWindow(cur)) =>
            /\ cur' = 0
            /\ obj'[cur] = obj[cur]
            /\ occ' = occ
            /\ emitted' = <<>>]_vars
    /\ []((cur # 0 /\ pc \in {"final", "hold", "transition", "outcome",
                               "anim", "interrupt", "int_outcome"})
            => ~InWindow(cur))

\* a tick of a running instance finds C, entered earlier, inside its delayBefore
C11_Witness ==
    /\ pc = "loop"
    /\ iterationLimit = IterationLimit
    /\ entry = <<>>
    /\ obj[cur].state = "C"
    /\ obj[cur].running
    /\ InWindow(cur)
    /\ occ[cur].anims = 0

\* what start(name) establishes when it takes effect
Started(H, i, name) ==
    /\ H.obj[i].state = name
    /\ ~H.obj[i].paused
    /\ H.obj[i].started
    /\ ~H.obj[i].running
    /\ Has(H.runningSet, i)
    /\ H.raised = "none"

\* the update of an instance that is not running performs phase entry: startTime
\* and progress are reset, setup is called, then the state is notified
PhaseEntry ==
    /\ [][(cur = 0 /\ cur' # 0 /\ ~obj[cur'].running) =>
            /\ pc' = "entry_setup"
            /\ obj'[cur'].startTime = obj'[cur'].time
            /\ obj'[cur'].progress = Zero]_vars
    /\ [][(pc = "entry_setup") => occ'[cur].setups = 1]_vars
    /\ [][(pc = "entry_check" /\ obj[cur].started /\ ~obj[cur].paused) =>
            emitted' = <<<<cur, obj[cur].state>>>>]_vars

\* C12 as stated: start(name) with name in the table is a no-op when the instance
\* is running and not paused, and in every other case (never started, stopped,
\* started but not yet ticked, paused) sets the current state to name, clears
\* paused, sets started, clears running and adds the instance to the registry, so
\* that the next update performs phase entry.
C12_StartUnlessRunning ==
    /\ [](\A i \in Inst, n \in StateNames :
            IF obj[i].running /\ ~obj[i].paused
            THEN start(Heap, i, n) = Heap
            ELSE Started(start(Heap, i, n), i, n))
    /\ PhaseEntry

\* C12 amended: start(name) with name in the table is a no-op whenever the
\* instance is started and not paused, ticked or not; when it is not started or is
\* paused it sets the current state to name, clears paused, sets started, clears
\* running and adds the instance to the registry, and the next update performs
\* phase entry.
C12_StartUnlessStarted ==
    /\ [](\A i \in Inst, n \in StateNames :
            IF obj[i].started /\ ~obj[i].paused
            THEN start(Heap, i, n) = Heap
            ELSE Started(start(Heap, i, n), i, n))
    /\ PhaseEntry

\* start("B") has taken effect on an instance paused half way through A
C12_Witness ==
    /\ Idle
    /\ obj[1].state = "B"
    /\ obj[1].started
    /\ ~obj[1].running
    /\ ~obj[1].paused
    /\ obj[1].progress = <<1, 2>>
    /\ runningSet = <<1>>

\* C13: between two consecutive resets of progress (state entry, transition, loop
\* restart) every value of progress the animation callback observes is at least
\* the value it observed before.
C13_ProgressMonotone ==
    [][\A i \in Inst :
        (occ[i].last # <<>> /\ occ'[i].last # <<>>) => LEQ(occ[i].last, occ'[i].last)]_vars

\* A's animation has observed progress 0, then 1/2
C13_Witness ==
    /\ obj[1].state = "A"
    /\ occ[1].anims = 2
    /\ occ[1].last = <<1, 2>>

\* 0 <= p <= 1
InUnit(p) == p[2] > 0 /\ 0 <= p[1] /\ p[1] <= p[2]

\* C14: progress lies in [0, 1] in every reachable state and at every invocation
\* of the animation callback, and a named transition or a loop restart never
\* anchors startTime after the clock of the update.
C14_ProgressInUnit ==
    /\ [](\A i \in Inst :
            /\ InUnit(obj[i].progress)
            /\ occ[i].last # <<>> => InUnit(occ[i].last))
    /\ [][(pc = "outcome" /\ cur' # 0) => obj'[cur].startTime <= current]_vars
    /\ [][(pc = "outcome" /\ nextStateName = false /\ states[st].loop) =>
            obj'[cur].startTime <= current]_vars

\* D, entered from C with the overshoot of 5 carried over, is about to show
\* progress 1/2 to its first animation call
C14_Witness ==
    /\ pc = "anim"
    /\ st = "D"
    /\ entry = <<>>
    /\ occ[cur].anims = 0
    /\ obj[cur].progress = <<1, 2>>
    /\ current - obj[cur].startTime = 5

\* the name waitForState compares the query with: the current state's name,
\* "stop" when there is no current state
CurrentName(i) == IF obj[i].state # NoState THEN obj[i].state ELSE "stop"

Emitted(seq) == {seq[k] : k \in 1..Len(seq)}

\* C15: waitForState(query) resolves at once, adding no listener and raising
\* nothing, when the current state name matches query, an instance with no
\* current state counting as "stop"; otherwise it resolves nothing and stays
\* pending; and a pending wait resolves, once, in the first step that emits a
\* notification with the name it waits for, and in no other step.
C15_WaitForState ==
    /\ [](\A i \in Inst, q \in Queries :
            LET H == waitForState(Heap, i, q) IN
            IF CurrentName(i) = q
            THEN /\ H.resolved = {<<i, q, "at once">>}
                 /\ H.listeners = listeners
                 /\ H.raised = "none"
            ELSE /\ H.resolved = {}
                 /\ H.listeners[i] = listeners[i] \cup {q}
                 /\ H.raised = "none")
    /\ [][\A i \in Inst : \A q \in listeners[i] :
            IF <<i, q>> \in Emitted(emitted')
            THEN <<i, q, "notified">> \in resolved' /\ q \notin listeners'[i]
            ELSE <<i, q, "notified">> \notin resolved' /\ q \in listeners'[i]]_vars

\* C16: once a callback has stopped the instance whose update is executing, that
\* update does nothing more: its next step returns without raising, invokes no
\* callback, emits no notification, and leaves the instance not started and
\* without a current state.
C16_StopInCallbackEndsUpdate ==
    [][(cur # 0 /\ ~obj[cur].started) =>
        /\ cur' = 0
        /\ raised' = "none"
        /\ occ' = occ
        /\ emitted' = <<>>
        /\ ~obj'[cur].started
        /\ obj'[cur].state = NoState]_vars

\* how a result of a rule is handled, for the step that applies the result
\* (position po) and the step that follows the target's setup (position pk)
ResultHandled(po, pk) ==
    /\ (pc = po /\ nextStateName = "stop" /\ obj[cur].started) =>
            /\ cur' = 0
            /\ Stopped([obj |-> obj', runningSet |-> runningSet'], cur)
            /\ emitted' = <<<<cur, "stop">>>>
    /\ (pc = po /\ nextStateName = "pause" /\ obj[cur].started /\ ~obj[cur].paused) =>
            /\ cur' = 0
            /\ obj'[cur].paused
            /\ ~obj'[cur].animating
            /\ emitted' = <<<<cur, "pause">>>>
    /\ (pc = po /\ nextStateName \in StateNames) =>
            /\ obj'[cur].state = nextStateName
            /\ obj'[cur].progress = Zero
            /\ emitted' = <<>>
    /\ (pc = pk /\ (~obj[cur].started \/ obj[cur].paused)) =>
            /\ cur' = 0
            /\ emitted' = <<>>
            /\ occ' = occ
    /\ (pc = pk /\ obj[cur].started /\ ~obj[cur].paused) =>
            /\ pc' = "loop"
            /\ obj'[cur].animating
            /\ emitted' = <<<<cur, nextStateName>>>>

\* C17: an interrupt result is handled like the same transition result: "stop"
\* stops the instance with one notification, "pause" pauses it, marks it
\* not-animating and notifies, a state name enters the target with progress 0 and
\* calls its setup; after the setup, an instance that was paused or stopped by it
\* makes update return at once with no notification and no further callback, and
\* otherwise the target is notified and the loop goes on with animating set.
C17_InterruptLikeTransition ==
    /\ [][ResultHandled("outcome", "trans_check")]_vars
    /\ [][ResultHandled("int_outcome", "int_check")]_vars

\* C18: when an interrupt returns a state name, the target is anchored at the
\* clock of the update, whatever the overflow flags: its startTime equals the
\* current clock when it is entered, when its setup is called and when the loop
\* resumes with it, so its elapsed time starts at 0.
C18_InterruptNoCarry ==
    /\ [][(pc = "int_outcome" /\ nextStateName \in StateNames) =>
            /\ obj'[cur].state = nextStateName
            /\ obj'[cur].startTime = current
            /\ obj'[cur].time = current]_vars
    /\ []((cur # 0 /\ pc \in {"int_setup", "int_check"}) =>
            obj[cur].startTime = current)
    /\ [][(pc = "int_check" /\ pc' = "loop") =>
            current - obj'[cur].startTime = 0]_vars

\* I, entered at clock 0 with overflow set, was interrupted at clock 5: B is
\* anchored at 5
C18_Witness ==
    /\ pc = "int_setup"
    /\ st = "I"
    /\ states[st].overflow
    /\ obj[cur].state = "B"
    /\ current = 5
    /\ obj[cur].startTime = 5

\* the instance being updated sits in a non-loop state that has shown its final
\* frame, is past its delayAfter and is no longer animating: its rule has not
\* let it leave
Retrying ==
    /\ cur # 0
    /\ obj[cur].state # NoState
    /\ ~states[obj[cur].state].loop
    /\ obj[cur].running
    /\ ~obj[cur].animating
    /\ obj[cur].progress = One
    /\ current >= obj[cur].startTime + PhaseLength(states[obj[cur].state])

\* C19: a tick of a non-loop state that is waiting for its transition rule goes
\* straight from the loop head to the rule: no animation call, no interrupt,
\* progress kept at 1, the rule evaluated in the first pass of the loop only; a
\* false result ends the tick with the instance unchanged, and a state name
\* anchors the target at the current clock.
C19_TransitionRetry ==
    /\ [](Retrying => pc \in {"loop", "final", "hold", "transition", "outcome"})
    /\ []((Retrying /\ pc = "transition") => iterationLimit = IterationLimit - 1)
    /\ [][(Retrying /\ pc = "loop" /\ iterationLimit = IterationLimit) =>
            pc' = "final" /\ obj'[cur] = obj[cur]]_vars
    /\ [][(Retrying /\ pc = "final") =>
            pc' = "hold" /\ occ' = occ /\ obj'[cur] = obj[cur]]_vars
    /\ [][(Retrying /\ pc = "hold") => pc' = "transition" /\ obj'[cur] = obj[cur]]_vars
    /\ [][(Retrying /\ pc = "outcome" /\ nextStateName = false) =>
            cur' = 0 /\ occ' = occ /\ obj'[cur] = obj[cur]]_vars
    /\ [][(Retrying /\ pc = "outcome" /\ nextStateName \in StateNames) =>
            obj'[cur].startTime = current]_vars

\* D, exhausted at clock 10 with its rule returning false, is retried at clock 15
\* and the rule now returns "C"
C19_Witness ==
    /\ pc = "outcome"
    /\ st = "D"
    /\ Retrying
    /\ nextStateName = "C"
    /\ occ[cur].anims = 2
    /\ current - obj[cur].startTime = 15

\* C20: the iteration-limit error is raised only by an update of an instance
\* caught in the cycle of zero-duration, always-transitioning states X -> Y -> X;
\* an update of an instance in any state with positive phase length, or in the
\* zero-duration loop state Z, never raises it, whatever the delta.
C20_LimitOnlyForZeroCycle ==
    [][(cur # 0 /\ raised' = "iteration limit") =>
            obj[cur].state \in {"X", "Y"}]_vars

\* the positions of update() right after a setup call
EntryChecks == {"entry_check", "trans_check", "int_check"}

\* the step emits a notification that carries a state name
NotifiesState == \E k \in 1..Len(emitted') : emitted'[k][2] \in StateNames

\* the state a setup call was made for
EntryTarget == IF pc = "entry_check" THEN obj[cur].state ELSE nextStateName

\* C21 as stated: each state entry (phase entry, transition or interrupt to a
\* named state, a self-transition included) invokes the target's setup exactly
\* once and then emits exactly one notification with the target's name, before
\* any animation call of that state; loop restarts invoke no setup and emit no
\* notification.
C21_EntrySetupThenNotify ==
    /\ [](\A i \in Inst :
            /\ occ[i].setups <= 1
            /\ occ[i].notes <= occ[i].setups
            /\ occ[i].anims > 0 => (occ[i].setups = 1 /\ occ[i].notes = 1))
    /\ [][(pc \in EntryChecks) => emitted' = <<<<cur, EntryTarget>>>>]_vars
    /\ [][(pc = "outcome" /\ nextStateName = false /\ states[st].loop) =>
            /\ occ'[cur].setups = occ[cur].setups
            /\ occ'[cur].notes = occ[cur].notes
            /\ emitted' = <<>>]_vars

\* C21, the part the code keeps: each state entry invokes the target's setup exactly once, before
\* any animation call of that state. On phase entry and on a transition the
\* notification with the target's name is emitted, once and right after the
\* setup, only if the instance is then still started and not paused; on an
\* interrupt it is emitted in every case. No other step emits a notification
\* with a state name, and none is emitted after an animation call of the state.
\* Loop restarts invoke no setup and emit no notification.
C21_EntrySetupNotifyUnlessAborted ==
    /\ [](\A i \in Inst :
            /\ occ[i].setups <= 1
            /\ occ[i].notes <= occ[i].setups
            /\ occ[i].anims > 0 => occ[i].setups = 1)
    /\ [][(pc \in {"entry_setup", "trans_setup", "int_setup"}) =>
            /\ occ[cur].setups = 0
            /\ occ[cur].anims = 0
            /\ occ'[cur].setups = 1
            /\ pc' \in EntryChecks]_vars
    /\ [][(pc \in {"entry_check", "trans_check"}) =>
            emitted' = IF obj[cur].started /\ ~obj[cur].paused
                       THEN <<<<cur, EntryTarget>>>> ELSE <<>>]_vars
    /\ [][(pc = "int_check") => emitted' = <<<<cur, EntryTarget>>>>]_vars
    /\ [][NotifiesState => (pc \in EntryChecks /\ occ[cur].anims = 0)]_vars
    /\ [][(pc = "outcome" /\ nextStateName = false /\ states[st].loop) =>
            /\ occ'[cur].setups = occ[cur].setups
            /\ occ'[cur].notes = occ[cur].notes
            /\ emitted' = <<>>]_vars

\* C21 witness: the self-transition D -> D has invoked D's setup and announced D,
\* and no animation of the new occupancy has run yet
C21_Witness ==
    /\ pc = "loop"
    /\ st = "D"
    /\ nextStateName = "D"
    /\ emitted = <<<<cur, "D">>>>
    /\ occ[cur].setups = 1
    /\ occ[cur].notes = 1
    /\ occ[cur].anims = 0

\* C22: pause() on a started, not-paused instance removes it from the registry,
\* marks it not-animating and emits exactly one "pause" notification; pause() on
\* a not-started or already-paused instance, and resume() on a not-paused
\* instance, change nothing and emit nothing.
C22_PauseMarksNotAnimating ==
    \A i \in Inst :
        Idle =>
            LET P == pause(Heap, i) IN
            /\ (obj[i].started /\ ~obj[i].paused) =>
                    /\ ~Has(P.runningSet, i)
                    /\ P.obj[i].paused
                    /\ ~P.obj[i].animating
                    /\ P.emitted = <<<<i, "pause">>>>
            /\ ~(obj[i].started /\ ~obj[i].paused) => P = Heap
            /\ ~obj[i].paused => resume(Heap, i) = Heap

\* C22, the part the code keeps: the same with the animating flag left as it was
C22_PauseKeepsAnimating ==
    \A i \in Inst :
        Idle =>
            LET P == pause(Heap, i) IN
            /\ (obj[i].started /\ ~obj[i].paused) =>
                    /\ ~Has(P.runningSet, i)
                    /\ P.obj = [obj EXCEPT ![i].paused = TRUE]
                    /\ P.emitted = <<<<i, "pause">>>>
            /\ ~(obj[i].started /\ ~obj[i].paused) => P = Heap
            /\ ~obj[i].paused => resume(Heap, i) = Heap

\* C23: after any sequence of start, stop, pause, resume and update calls, calls
\* made from callbacks and calls that raise an error included, an instance is a
\* member of the registry if and only if it is started and not paused.
C23_RegistryMembership ==
    \A i \in Inst : Has(runningSet, i) <=> (obj[i].started /\ ~obj[i].paused)

\* C24: within one Animator.update(delta) call every instance is updated at most
\* once, and only while it is started and not paused when its turn comes, even
\* when callbacks pause and resume (or stop and restart) instances during the
\* batch, the instance being updated included.
C24_AtMostOncePerBatch ==
    /\ [](batch.active =>
            \A k, l \in 1..Len(batch.updated) :
                batch.updated[k] = batch.updated[l] => k = l)
    /\ [][(batch'.active /\ Len(batch'.updated) > Len(batch.updated)) =>
            LET j == batch'.updated[Len(batch'.updated)]
            IN  obj[j].started /\ ~obj[j].paused]_vars

\* C24, the part the code keeps: an instance's turn comes only while it is
\* started and not paused
C24_TurnOnlyWhileActive ==
    [][(batch'.active /\ Len(batch'.updated) > Len(batch.updated)) =>
            LET j == batch'.updated[Len(batch'.updated)]
            IN  obj[j].started /\ ~obj[j].paused]_vars

\* the flags, state and registry membership of instance i are the same in H as
\* in the current state
SameLifecycle(H, i) ==
    /\ H.obj[i].started = obj[i].started
    /\ H.obj[i].running = obj[i].running
    /\ H.obj[i].paused = obj[i].paused
    /\ H.obj[i].state = obj[i].state
    /\ Has(H.runningSet, i) <=> Has(runningSet, i)

\* C25: when start(name) raises the state-not-found error, the instance's flags
\* (started, running, paused), current state and registry membership are what
\* they were before the call, whether the instance was never started, stopped,
\* or paused.
C25_FailingStartAtomic ==
    \A i \in Inst : \A n \in StartNames :
        Idle =>
            LET H == start(Heap, i, n)
            IN  H.raised = "state not found" => SameLifecycle(H, i)

\* C25, the part the code keeps: a failing start(name) on an instance that is
\* not paused (never started, or stopped) changes nothing
C25_FailingStartUnpaused ==
    \A i \in Inst : \A n \in StartNames :
        (Idle /\ ~obj[i].paused) =>
            LET H == start(Heap, i, n)
            IN  H.raised = "state not found" =>
                    (SameLifecycle(H, i) /\ ~obj[i].started)

====
